---- MODULE Spec2Model ----
(***************************************************************************)
(* A model of src/main.py: the JSON extractor clean_and_parse_json and the *)
(* four-stage pipeline of main().                                          *)
(*                                                                         *)
(* A text is a sequence of characters, each a one-character string.  The   *)
(* characters a string of this module cannot hold are written by name: BT  *)
(* for the backquote and "<U+XXXX>" (upper-case hexadecimal code point)    *)
(* for every character outside printable ASCII but \n, \t, \r and \f.     *)
(* A JSON value is a tagged record and None is PyNone.  A float is the     *)
(* double nearest to the decimal mant * 10^exp, with mant not a multiple   *)
(* of 10: a literal beyond the range of a double is an infinity or zero,   *)
(* and in between a literal of at most ten significant digits names one    *)
(* double and no other literal names the same one.  Literals of more       *)
(* digits than the integers of the checker hold, and literals in the lower *)
(* part of the subnormal range, where a double has fewer digits than the   *)
(* literal, are not given a value.  json.loads is the accelerated decoder  *)
(* of CPython 3.11 with the default recursion limit and the default limit  *)
(* of 4300 digits on the conversion of an integer.  sys.stdout encodes in  *)
(* UTF-8: print raises UnicodeEncodeError on a lone surrogate, but for     *)
(* U+DC80 to U+DCFF, which the surrogateescape handler of the C locale     *)
(* writes and the strict handler refuses; a text that prints one of these  *)
(* is not given an outcome.  Only exceptions derived from Exception are    *)
(* considered.                                                             *)
(***************************************************************************)
EXTENDS Integers, Sequences, FiniteSets, TLC

\* Longest prose placed before or after the body of a generated text.
MaxProse == 1

----------------------------------------------------------------------------
(* Python values *)

PyNone == [kind |-> "none"]
JNull == [kind |-> "null"]
JBool(b) == [kind |-> "bool", bool |-> b]
JNum(n) == [kind |-> "num", num |-> n]
JStr(s) == [kind |-> "str", str |-> s]
JArr(a) == [kind |-> "arr", arr |-> a]
JObj(f) == [kind |-> "obj", obj |-> f]
JFloat(m, e) == [kind |-> "float", mant |-> m, exp |-> e]
JNaN == [kind |-> "nan"]
JInf(neg) == [kind |-> "inf", neg |-> neg]

\* bool(v), as the tests 'if company_info:' of main() evaluate it.
Truthy(v) ==
    CASE v.kind = "none" -> FALSE
      [] v.kind = "null" -> FALSE
      [] v.kind = "bool" -> v.bool
      [] v.kind = "num" -> v.num # 0
      [] v.kind = "float" -> v.mant # 0
      [] v.kind = "nan" -> TRUE
      [] v.kind = "inf" -> TRUE
      [] v.kind = "str" -> Len(v.str) > 0
      [] v.kind = "arr" -> Len(v.arr) > 0
      [] v.kind = "obj" -> DOMAIN v.obj # {}

----------------------------------------------------------------------------
(* Characters *)

\* The backquote character.
BT == "<backquote>"

\* The characters of code 32 to 126, in order.
Printable ==
    << " ", "!", "\"", "#", "$", "%", "&", "'", "(", ")", "*", "+", ",", "-",
       ".", "/", "0", "1", "2", "3", "4", "5", "6", "7", "8", "9", ":", ";",
       "<", "=", ">", "?", "@", "A", "B", "C", "D", "E", "F", "G", "H", "I",
       "J", "K", "L", "M", "N", "O", "P", "Q", "R", "S", "T", "U", "V", "W",
       "X", "Y", "Z", "[", "\\", "]", "^", "_", BT, "a", "b", "c", "d", "e",
       "f", "g", "h", "i", "j", "k", "l", "m", "n", "o", "p", "q", "r", "s",
       "t", "u", "v", "w", "x", "y", "z", "{", "|", "}", "~" >>

HexDigitsUpper ==
    << "0", "1", "2", "3", "4", "5", "6", "7", "8", "9",
       "A", "B", "C", "D", "E", "F" >>

\* n in hexadecimal, on at least `width` digits.
RECURSIVE HexOf(_, _)
HexOf(n, width) ==
    IF n < 16 /\ width <= 1 THEN HexDigitsUpper[n + 1]
    ELSE HexOf(n \div 16, width - 1) \o HexDigitsUpper[(n % 16) + 1]

\* chr(n)
CharOf(n) ==
    IF n \in 32..126 THEN Printable[n - 31]
    ELSE IF n = 9 THEN "\t"
    ELSE IF n = 10 THEN "\n"
    ELSE IF n = 12 THEN "\f"
    ELSE IF n = 13 THEN "\r"
    ELSE "<U+" \o HexOf(n, 4) \o ">"

\* The characters print cannot write to sys.stdout, and those it can write
\* under the surrogateescape handler only.
Unencodable == {CharOf(n) : n \in (55296..56447) \cup (56576..57343)}
HandlerDependent == {CharOf(n) : n \in 56448..56575}

\* print(text) raises UnicodeEncodeError
PrintRaises(text) == \E i \in 1..Len(text) : text[i] \in Unencodable

\* print(text) writes the text
PrintWrites(text) ==
    \A i \in 1..Len(text) : text[i] \notin Unencodable \cup HandlerDependent

----------------------------------------------------------------------------
(* str.replace, str.strip, re.search *)

IsPrefixAt(s, i, p) ==
    /\ i + Len(p) - 1 <= Len(s)
    /\ \A k \in 1..Len(p) : s[i + k - 1] = p[k]

\* s.replace(old, ''): one left-to-right pass over non-overlapping matches.
RECURSIVE RemoveAllFrom(_, _, _)
RemoveAllFrom(s, i, old) ==
    IF i > Len(s) THEN << >>
    ELSE IF IsPrefixAt(s, i, old) THEN RemoveAllFrom(s, i + Len(old), old)
    ELSE << s[i] >> \o RemoveAllFrom(s, i + 1, old)

Remove(s, old) == RemoveAllFrom(s, 1, old)

\* The code points str.isspace() holds of.
WhitespaceCodes ==
    (9..13) \cup (28..32) \cup {133, 160, 5760} \cup (8192..8202)
    \cup {8232, 8233, 8239, 8287, 12288}

StripChars == {CharOf(n) : n \in WhitespaceCodes}

\* s.strip()
Strip(s) ==
    LET keep == {i \in 1..Len(s) : s[i] \notin StripChars} IN
    IF keep = {} THEN << >>
    ELSE LET lo == CHOOSE i \in keep : \A j \in keep : i <= j
             hi == CHOOSE i \in keep : \A j \in keep : j <= i
         IN SubSeq(s, lo, hi)

FenceJson == << BT, BT, BT, "j", "s", "o", "n" >>
Fence == << BT, BT, BT >>

\* clean_content: both fence markers removed, then strip()
CleanContent(raw) == Strip(Remove(Remove(raw, FenceJson), Fence))

NoMatch == [found |-> FALSE, group |-> << >>]

\* re.search(r'(\{.*\})', s, re.DOTALL): from the first '{' to the last '}'.
JsonMatch(s) ==
    LET opens == {i \in 1..Len(s) : s[i] = "{"} IN
    IF opens = {} THEN NoMatch
    ELSE LET lo == CHOOSE i \in opens : \A j \in opens : i <= j
             closes == {i \in (lo + 1)..Len(s) : s[i] = "}"}
         IN IF closes = {} THEN NoMatch
            ELSE LET hi == CHOOSE i \in closes : \A j \in closes : j <= i
                 IN [found |-> TRUE, group |-> SubSeq(s, lo, hi)]

----------------------------------------------------------------------------
(* json.loads *)

JsonWs == {" ", "\n", "\t", "\r"}
\* strict mode: no character below 0x20 inside a string
ControlChars == {CharOf(n) : n \in 0..31}
Digits == {"0", "1", "2", "3", "4", "5", "6", "7", "8", "9"}

DigitVal(c) ==
    CASE c = "0" -> 0 [] c = "1" -> 1 [] c = "2" -> 2 [] c = "3" -> 3
      [] c = "4" -> 4 [] c = "5" -> 5 [] c = "6" -> 6 [] c = "7" -> 7
      [] c = "8" -> 8 [] c = "9" -> 9

Escapes == {"\"", "\\", "/", "b", "f", "n", "r", "t"}

Unescape(c) ==
    CASE c = "n" -> "\n" [] c = "r" -> "\r" [] c = "t" -> "\t"
      [] c = "f" -> "\f" [] c = "b" -> CharOf(8) [] OTHER -> c

HexDigits ==
    Digits \cup {"a", "b", "c", "d", "e", "f", "A", "B", "C", "D", "E", "F"}

HexVal(c) ==
    CASE c \in Digits -> DigitVal(c)
      [] c \in {"a", "A"} -> 10 [] c \in {"b", "B"} -> 11
      [] c \in {"c", "C"} -> 12 [] c \in {"d", "D"} -> 13
      [] c \in {"e", "E"} -> 14 [] c \in {"f", "F"} -> 15

\* s[i:i+1]
At(s, i) == IF i >= 1 /\ i <= Len(s) THEN s[i] ELSE ""

\* json.loads raises JSONDecodeError, RecursionError on a text nested deeper
\* than the interpreter allows, or ValueError on an integer of more digits
\* than int() converts.
DecodeError == [ok |-> FALSE, exc |-> "JSONDecodeError"]
RecursionError == [ok |-> FALSE, exc |-> "RecursionError"]
ValueError == [ok |-> FALSE, exc |-> "ValueError"]
Decoded(v, e) == [ok |-> TRUE, val |-> v, end |-> e]

\* The containers json.loads can open inside one another when main() calls
\* clean_and_parse_json: sys.getrecursionlimit() is 1000, and the frames of
\* the script, main, clean_and_parse_json, loads, decode and raw_decode and
\* the call of the scanner are in use.
NestingLimit == 993

\* sys.get_int_max_str_digits()
MaxStrDigits == 4300

\* The four hexadecimal digits of an escape uXXXX starting at i, -1 if
\* they are not four hexadecimal digits.
DecodeU(s, i) ==
    IF \A k \in 0..3 : i + k <= Len(s) /\ s[i + k] \in HexDigits
    THEN 4096 * HexVal(s[i]) + 256 * HexVal(s[i + 1])
         + 16 * HexVal(s[i + 2]) + HexVal(s[i + 3])
    ELSE 0 - 1

\* WHITESPACE.match(s, i).end()
RECURSIVE SkipWs(_, _)
SkipWs(s, i) == IF At(s, i) \in JsonWs THEN SkipWs(s, i + 1) ELSE i

RECURSIVE ScanString(_, _, _)

\* The character of an escape uXXXX whose backslash is at i, and where the
\* string goes on: u is the escape's value, low the value of an escape that
\* follows it at once (-1 for none), and a high surrogate followed by a low
\* one makes one character.
Surrogates(u, low, i) ==
    IF u < 0 THEN DecodeError
    ELSE IF u \in 55296..56319 /\ low \in 56320..57343
    THEN Decoded(CharOf(65536 + (u - 55296) * 1024 + (low - 56320)), i + 12)
    ELSE Decoded(CharOf(u), i + 6)

UnicodeEscape(s, i) ==
    Surrogates(DecodeU(s, i + 2),
               IF At(s, i + 6) = "\\" /\ At(s, i + 7) = "u"
               THEN DecodeU(s, i + 8) ELSE 0 - 1,
               i)

\* The string goes on after the escape e.
AfterEscape(s, e, acc) ==
    IF e.ok THEN ScanString(s, e.end, Append(acc, e.val)) ELSE DecodeError

\* py_scanstring, strict: i is the position after the opening quote.
ScanString(s, i, acc) ==
    LET c == At(s, i) IN
    IF c = "" THEN DecodeError
    ELSE IF c = "\"" THEN Decoded(acc, i + 1)
    ELSE IF c \in ControlChars THEN DecodeError
    ELSE IF c = "\\" /\ At(s, i + 1) = "u"
         THEN AfterEscape(s, UnicodeEscape(s, i), acc)
    ELSE IF c = "\\"
         THEN IF At(s, i + 1) \in Escapes
              THEN ScanString(s, i + 2, Append(acc, Unescape(s[i + 1])))
              ELSE DecodeError
    ELSE ScanString(s, i + 1, Append(acc, c))

\* The digits from i on, appended to the decimal number n.
RECURSIVE ScanDigits(_, _, _)
ScanDigits(s, i, n) ==
    IF At(s, i) \in Digits THEN ScanDigits(s, i + 1, 10 * n + DigitVal(s[i]))
    ELSE Decoded(n, i)

\* The position after the digits that start at i.
DigitsEnd(s, i) ==
    LET stops == {k \in i..(Len(s) + 1) : At(s, k) \notin Digits} IN
    CHOOSE k \in stops : \A j \in stops : k <= j

\* The number of decimal digits of a > 0.
RECURSIVE DecimalDigits(_)
DecimalDigits(a) == IF a < 10 THEN 1 ELSE 1 + DecimalDigits(a \div 10)

RECURSIVE Pow10(_)
Pow10(k) == IF k = 0 THEN 1 ELSE 10 * Pow10(k - 1)

\* The first nine significant digits of a > 0.
Leading9(a, digits) ==
    IF digits <= 9 THEN a * Pow10(9 - digits) ELSE a \div 10

\* a * 10^e rounds to an infinity: it is at least 2^1024 - 2^970, which is
\* 1.797693134862315807...e308.
Overflows(a, magnitude, leading) ==
    \/ magnitude > 309
    \/ /\ magnitude = 309
       /\ leading > 179769313 \/ (leading = 179769313 /\ a > 1797693134)

\* a * 10^e rounds to zero: it is at most 2^-1075, which is
\* 2.470328229206232720...e-324.
Underflows(magnitude, leading) ==
    \/ magnitude < 0 - 323
    \/ magnitude = 0 - 323 /\ leading <= 247032822

\* float(m * 10^e) for m # 0 not a multiple of 10, where magnitude is the
\* power of ten above |m| * 10^e and leading its first nine digits.  From
\* 1e-314 down to the underflow two literals can name one double, and the
\* literal has no value here.
DoubleOf(m, e, a, magnitude, leading) ==
    CASE Overflows(a, magnitude, leading) -> JInf(m < 0)
      [] Underflows(magnitude, leading) -> JFloat(0, 0)
      [] ~Overflows(a, magnitude, leading) /\ magnitude >= 0 - 313 -> JFloat(m, e)

Abs(m) == IF m < 0 THEN 0 - m ELSE m

Double(m, e) ==
    DoubleOf(m, e, Abs(m), DecimalDigits(Abs(m)) + e,
             Leading9(Abs(m), DecimalDigits(Abs(m))))

\* float(mant * 10^exp): the trailing zeros of mant are moved into exp.
RECURSIVE Normalized(_, _)
Normalized(m, e) ==
    IF m = 0 THEN JFloat(0, 0)
    ELSE IF m % 10 = 0 THEN Normalized(m \div 10, e + 1)
    ELSE Double(m, e)

\* (\.[0-9]+) matches at i
HasFraction(s, i) == At(s, i) = "." /\ At(s, i + 1) \in Digits

\* ([eE][-+]?[0-9]+) matches at i
HasExponent(s, i) ==
    /\ At(s, i) \in {"e", "E"}
    /\ At(s, IF At(s, i + 1) \in {"+", "-"} THEN i + 2 ELSE i + 1) \in Digits

\* The exponent part of _match_number: frac is the mantissa read so far and
\* its end, scale the number of fraction digits in it.
NumberExponent(s, sign, frac, scale, is_float) ==
    IF HasExponent(s, frac.end)
    THEN LET exp == ScanDigits(s, IF At(s, frac.end + 1) \in {"+", "-"}
                                  THEN frac.end + 2 ELSE frac.end + 1, 0)
         IN Decoded(Normalized(sign * frac.val,
                        (IF At(s, frac.end + 1) = "-" THEN 0 - exp.val ELSE exp.val)
                        - scale),
                    exp.end)
    ELSE IF is_float
    THEN Decoded(Normalized(sign * frac.val, 0 - scale), frac.end)
    ELSE Decoded(JNum(sign * frac.val), frac.end)

\* The fraction part of _match_number: int is the integer part and its end.
NumberFraction(s, sign, int) ==
    IF HasFraction(s, int.end)
    THEN LET frac == ScanDigits(s, int.end + 1, int.val) IN
         NumberExponent(s, sign, frac, frac.end - (int.end + 1), TRUE)
    ELSE NumberExponent(s, sign, int, 0, FALSE)

\* The integer part of _match_number, from j to int_end: without fraction
\* and exponent the literal goes to int(), which raises ValueError beyond
\* MaxStrDigits digits.
NumberInteger(s, j, sign, int_end) ==
    IF ~HasFraction(s, int_end) /\ ~HasExponent(s, int_end)
       /\ int_end - j > MaxStrDigits
    THEN ValueError
    ELSE NumberFraction(s, sign,
             IF At(s, j) = "0" THEN Decoded(0, j + 1) ELSE ScanDigits(s, j, 0))

\* _match_number: -?(0|[1-9][0-9]*)(\.[0-9]+)?([eE][-+]?[0-9]+)? ; an int
\* without fraction and exponent, a float with either.
ScanNumber(s, i) ==
    LET j == IF At(s, i) = "-" THEN i + 1 ELSE i IN
    IF At(s, j) \notin Digits THEN DecodeError
    ELSE NumberInteger(s, j, IF At(s, i) = "-" THEN 0 - 1 ELSE 1,
             IF At(s, j) = "0" THEN j + 1 ELSE DigitsEnd(s, j))

LitNull == << "n", "u", "l", "l" >>
LitTrue == << "t", "r", "u", "e" >>
LitFalse == << "f", "a", "l", "s", "e" >>
LitNaN == << "N", "a", "N" >>
LitInfinity == << "I", "n", "f", "i", "n", "i", "t", "y" >>
LitNegInfinity == << "-" >> \o LitInfinity

Put(f, k, v) == [x \in DOMAIN f \cup {k} |-> IF x = k THEN v ELSE f[x]]

RECURSIVE ScanOnce(_, _, _)
RECURSIVE ObjectMembers(_, _, _, _)
RECURSIVE ArrayItems(_, _, _, _)

\* JSONObject after a pair: next is the position of the character after it.
ObjectNext(s, next, pairs, d) ==
    IF At(s, next) = "}" THEN Decoded(JObj(pairs), next + 1)
    ELSE IF At(s, next) # "," THEN DecodeError
    ELSE IF At(s, SkipWs(s, next + 1)) # "\"" THEN DecodeError
    ELSE ObjectMembers(s, SkipWs(s, next + 1) + 1, pairs, d)

\* JSONObject after the value of the key k.
ObjectValue(s, k, value, acc, d) ==
    IF ~value.ok THEN value
    ELSE ObjectNext(s, SkipWs(s, value.end), Put(acc, k, value.val), d)

\* JSONObject after a key: colon is the position of the character after it.
ObjectColon(s, k, colon, acc, d) ==
    IF At(s, colon) # ":" THEN DecodeError
    ELSE ObjectValue(s, k, ScanOnce(s, SkipWs(s, colon + 1), d), acc, d)

ObjectKey(s, key, acc, d) ==
    IF ~key.ok THEN key
    ELSE ObjectColon(s, key.val, SkipWs(s, key.end), acc, d)

\* JSONObject's loop: i is the position after the opening quote of a key,
\* d the number of containers open.
ObjectMembers(s, i, acc, d) == ObjectKey(s, ScanString(s, i, << >>), acc, d)

\* JSONObject: i is the position after '{'.
JSONObject(s, i, d) ==
    LET j == SkipWs(s, i) IN
    IF At(s, j) = "}" THEN Decoded(JObj(<< >>), j + 1)
    ELSE IF At(s, j) # "\"" THEN DecodeError
    ELSE ObjectMembers(s, j + 1, << >>, d)

\* JSONArray after an item: next is the position of the character after it.
ArrayNext(s, next, items, d) ==
    IF At(s, next) = "]" THEN Decoded(JArr(items), next + 1)
    ELSE IF At(s, next) # "," THEN DecodeError
    ELSE ArrayItems(s, SkipWs(s, next + 1), items, d)

ArrayValue(s, value, acc, d) ==
    IF ~value.ok THEN value
    ELSE ArrayNext(s, SkipWs(s, value.end), Append(acc, value.val), d)

\* JSONArray's loop: i is the position of the next value.
ArrayItems(s, i, acc, d) == ArrayValue(s, ScanOnce(s, i, d), acc, d)

\* JSONArray: i is the position after '['.
JSONArray(s, i, d) ==
    LET j == SkipWs(s, i) IN
    IF At(s, j) = "]" THEN Decoded(JArr(<< >>), j + 1)
    ELSE ArrayItems(s, j, << >>, d)

\* A string value: the characters ScanString read, as a str.
StringValue(r) == IF r.ok THEN Decoded(JStr(r.val), r.end) ELSE DecodeError

\* scan_once: the value at i, inside d open containers.  Entering a
\* container beyond NestingLimit raises RecursionError.
ScanOnce(s, i, d) ==
    LET c == At(s, i) IN
    IF c = "\"" THEN StringValue(ScanString(s, i + 1, << >>))
    ELSE IF c \in {"{", "["} /\ d >= NestingLimit THEN RecursionError
    ELSE IF c = "{" THEN JSONObject(s, i + 1, d + 1)
    ELSE IF c = "[" THEN JSONArray(s, i + 1, d + 1)
    ELSE IF IsPrefixAt(s, i, LitNull) THEN Decoded(JNull, i + 4)
    ELSE IF IsPrefixAt(s, i, LitTrue) THEN Decoded(JBool(TRUE), i + 4)
    ELSE IF IsPrefixAt(s, i, LitFalse) THEN Decoded(JBool(FALSE), i + 5)
    ELSE IF IsPrefixAt(s, i, LitNaN) THEN Decoded(JNaN, i + 3)
    ELSE IF IsPrefixAt(s, i, LitInfinity) THEN Decoded(JInf(FALSE), i + 8)
    ELSE IF IsPrefixAt(s, i, LitNegInfinity) THEN Decoded(JInf(TRUE), i + 9)
    ELSE ScanNumber(s, i)

\* The value json.loads read must be followed by whitespace only.
WholeText(s, r) ==
    IF ~r.ok THEN r
    ELSE IF SkipWs(s, r.end) = Len(s) + 1 THEN r
    ELSE DecodeError

\* json.loads(s): one value, surrounded by whitespace only.
JsonLoads(s) == WholeText(s, ScanOnce(s, SkipWs(s, 1), 0))

----------------------------------------------------------------------------
(* clean_and_parse_json *)

\* What line 214 prints: the span, or its first 500 characters and an
\* ellipsis.
PrintedSpan(json_content) ==
    IF Len(json_content) > 500
    THEN SubSeq(json_content, 1, 500) \o << ".", ".", "." >>
    ELSE json_content

\* return parsed_json, or the except clause of line 225, which catches
\* JSONDecodeError only.
Parsed(parsed_json) ==
    IF parsed_json.ok
    THEN [ret |-> parsed_json.val, log |-> "none", exc |-> "none"]
    ELSE IF parsed_json.exc = "JSONDecodeError"
    THEN [ret |-> PyNone, log |-> "decode_error", exc |-> "none"]
    ELSE [ret |-> PyNone, log |-> "none", exc |-> parsed_json.exc]

\* The branch 'if json_match:' and the try block after it: the print of line
\* 214 is outside the try block.
Located(json_content) ==
    CASE PrintRaises(PrintedSpan(json_content)) ->
             [ret |-> PyNone, log |-> "none", exc |-> "UnicodeEncodeError"]
      [] PrintWrites(PrintedSpan(json_content)) ->
             Parsed(JsonLoads(json_content))

\* What a call of clean_and_parse_json does: ret is what it returns, log the
\* error it logs on the way ("no_json" for 'No JSON object found',
\* "decode_error" for 'JSON Decode Error', "none" for no error) and exc the
\* exception that leaves it instead of a return ("none" when it returns).
Extraction(raw) ==
    LET json_match == JsonMatch(CleanContent(raw)) IN
    IF ~json_match.found
    THEN [ret |-> PyNone, log |-> "no_json", exc |-> "none"]
    ELSE Located(json_match.group)

\* The value clean_and_parse_json returns, when it returns.
clean_and_parse_json(raw) ==
    CASE Extraction(raw).exc = "none" -> Extraction(raw).ret

----------------------------------------------------------------------------
(* The state of one run of the script *)

VARIABLES
    pc,               \* the statement of main() about to run
    combined_output,  \* the dict combined_output: key -> value
    results,          \* company_info, pain_points, industry_challenges and
                      \* solutions as clean_and_parse_json returned them
    raw_content,      \* the text last handed to clean_and_parse_json
    outcome,          \* what that call returned and the error it logged
    file,             \* combined_analysis.json on disk
    writes,           \* the documents this run has written, in order
    raised,           \* the statements that raised, in order
    e_printable,      \* whether print can write str(e) of the exception
                      \* raised last
    parts             \* how raw_content was put together (extractor runs)

vars == << pc, combined_output, results, raw_content, outcome, file, writes,
           raised, e_printable, parts >>

Keys == << "company_info", "pain_points", "industry_challenges",
           "selling_company", "solutions" >>

KeySet == {Keys[i] : i \in 1..Len(Keys)}

\* {"error": "Failed to parse"}
Placeholder ==
    JObj(<< "e", "r", "r", "o", "r" >> :>
         JStr(<< "F", "a", "i", "l", "e", "d", " ", "t", "o", " ",
                 "p", "a", "r", "s", "e" >>))

Q == "\""

\* Texts a generation call may return as its last message.
GeneratedTexts ==
    { << "{", Q, "a", Q, ":", " ", "1", "}" >>,
      << "x", ":", "\n", BT, BT, BT, "j", "s", "o", "n", "\n",
         "{", Q, "b", Q, ":", " ", Q, "y", Q, "}", "\n", BT, BT, BT, "\n", "x" >>,
      << "{", "}" >>,
      << "x" >>,
      << "{", Q, "a", Q, ":", "1", ",", "}" >>,
      << "{", CharOf(55357), "}" >> }

\* What client.run(...).messages[-1]["content"] yields: the call raises an
\* exception whose message print can write or cannot, the content is None,
\* or the content is a text.
Generations ==
    { [kind |-> "raise", text |-> << >>, printable |-> p] : p \in BOOLEAN }
    \cup { [kind |-> "content_none", text |-> << >>, printable |-> TRUE] }
    \cup { [kind |-> "text", text |-> t, printable |-> TRUE] : t \in GeneratedTexts }

\* What input("What company are you selling for? ") may return.
VendorNames == { << "V" >>, << >> }

\* combined_analysis.json: absent, a JSON document, or the beginning of one
\* left by a write that failed after open() had truncated the file.
NoFile == [exists |-> FALSE, valid |-> FALSE, doc |-> << >>]
Document(d) == [exists |-> TRUE, valid |-> TRUE, doc |-> d]
TruncatedFile == [exists |-> TRUE, valid |-> FALSE, doc |-> << >>]

\* A complete document left on disk by an earlier run.
EarlierDocument ==
    Document([k \in KeySet |->
                 IF k = "selling_company" THEN JStr(<< "W" >>)
                 ELSE JObj(<< "o", "l", "d" >> :> JNum(0))])

NoParts == [pre |-> << >>, open |-> << >>, body |-> << >>, close |-> << >>,
            post |-> << >>, value |-> PyNone]

NoOutcome == [ret |-> PyNone, log |-> "none", exc |-> "none"]

Init ==
    /\ pc = "prompt_url"
    /\ combined_output = << >>
    /\ results = << >>
    /\ raw_content = << >>
    /\ outcome = NoOutcome
    /\ file \in {NoFile, EarlierDocument}
    /\ writes = << >>
    /\ raised = << >>
    /\ e_printable = TRUE
    /\ parts = NoParts

\* An exception raised by the statement at `site`: inside the try block
\* control goes to the except clause, elsewhere it leaves main().  The
\* messages of the exceptions of input, open, json.dump, print, json.loads
\* and None.replace are ASCII.
Raise(site, target, printable) ==
    /\ pc' = target
    /\ raised' = Append(raised, site)
    /\ e_printable' = printable

\* company_url = input(...), then combined_output = {}
PromptCompanyUrl ==
    /\ pc = "prompt_url"
    /\ \/ /\ Raise("url", "propagated", TRUE)
          /\ UNCHANGED combined_output
       \/ /\ pc' = "info_extractor"
          /\ combined_output' = << >>
          /\ UNCHANGED << raised, e_printable >>
    /\ UNCHANGED << results, raw_content, outcome, file, writes, parts >>

\* One stage whose extraction failure ends the run: the generation call, the
\* extraction and the 'if <result>: ... else: ... return' that follows.
\* `site` names the generation call, and the call of clean_and_parse_json on
\* a content of None, which raises AttributeError; `extract` names the call
\* of clean_and_parse_json on a text.
AbortingStage(here, site, extract, key, next) ==
    /\ pc = here
    /\ \E g \in Generations :
          \/ /\ g.kind = "raise"
             /\ Raise(site, "except", g.printable)
             /\ UNCHANGED << combined_output, results, raw_content, outcome >>
          \/ /\ g.kind = "content_none"
             /\ Raise(site, "except", TRUE)
             /\ UNCHANGED << combined_output, results, raw_content, outcome >>
          \/ /\ g.kind = "text"
             /\ raw_content' = g.text
             /\ outcome' = Extraction(g.text)
             /\ IF outcome'.exc # "none"
                THEN /\ Raise(extract, "except", TRUE)
                     /\ UNCHANGED << combined_output, results >>
                ELSE /\ results' = Put(results, key, outcome'.ret)
                     /\ IF Truthy(outcome'.ret)
                        THEN /\ combined_output' =
                                   Put(combined_output, key, outcome'.ret)
                             /\ pc' = next
                        ELSE /\ UNCHANGED combined_output
                             /\ pc' = "returned"
                     /\ UNCHANGED << raised, e_printable >>
    /\ UNCHANGED << file, writes, parts >>

RunInfoExtractor ==
    AbortingStage("info_extractor", "stage1", "extract1", "company_info",
                  "pain_point_analyzer")

RunPainPointAnalyzer ==
    AbortingStage("pain_point_analyzer", "stage2", "extract2", "pain_points",
                  "industry_challenges_identifier")

\* Stage 3 tolerated without the placeholder: a failed extraction stores nothing.
RunIndustryChallengesIdentifier_NoPlaceholder ==
    /\ pc = "industry_challenges_identifier"
    /\ \E g \in Generations :
          \/ /\ g.kind # "text"
             /\ Raise("stage3", "except", g.printable)
             /\ UNCHANGED << combined_output, results, raw_content, outcome >>
          \/ /\ g.kind = "text"
             /\ raw_content' = g.text
             /\ outcome' = Extraction(g.text)
             /\ IF outcome'.exc # "none"
                THEN /\ Raise("extract3", "except", TRUE)
                     /\ UNCHANGED << combined_output, results >>
                ELSE /\ results' = Put(results, "industry_challenges", outcome'.ret)
                     /\ combined_output' =
                           IF Truthy(outcome'.ret)
                           THEN Put(combined_output, "industry_challenges",
                                    outcome'.ret)
                           ELSE combined_output
                     /\ pc' = "prompt_vendor"
                     /\ UNCHANGED << raised, e_printable >>
    /\ UNCHANGED << file, writes, parts >>

RunIndustryChallengesIdentifier ==
    /\ pc = "industry_challenges_identifier"
    /\ \E g \in Generations :
          \/ /\ g.kind = "raise"
             /\ Raise("stage3", "except", g.printable)
             /\ UNCHANGED << combined_output, results, raw_content, outcome >>
          \/ /\ g.kind = "content_none"
             /\ Raise("stage3", "except", TRUE)
             /\ UNCHANGED << combined_output, results, raw_content, outcome >>
          \/ /\ g.kind = "text"
             /\ raw_content' = g.text
             /\ outcome' = Extraction(g.text)
             /\ IF outcome'.exc # "none"
                THEN /\ Raise("extract3", "except", TRUE)
                     /\ UNCHANGED << combined_output, results >>
                ELSE /\ results' = Put(results, "industry_challenges", outcome'.ret)
                     /\ combined_output' =
                           Put(combined_output, "industry_challenges",
                               IF Truthy(outcome'.ret) THEN outcome'.ret
                               ELSE Placeholder)
                     /\ pc' = "prompt_vendor"
                     /\ UNCHANGED << raised, e_printable >>
    /\ UNCHANGED << file, writes, parts >>

PromptSellingCompany ==
    /\ pc = "prompt_vendor"
    /\ \/ /\ Raise("vendor", "except", TRUE)
          /\ UNCHANGED combined_output
       \/ /\ \E selling_company \in VendorNames :
                combined_output' =
                    Put(combined_output, "selling_company", JStr(selling_company))
          /\ pc' = "solution_reporter"
          /\ UNCHANGED << raised, e_printable >>
    /\ UNCHANGED << results, raw_content, outcome, file, writes, parts >>

RunSolutionReporter ==
    AbortingStage("solution_reporter", "stage4", "extract4", "solutions",
                  "save_in_try")

\* A write that raises: open() fails and the file keeps what it held, or
\* open() has truncated the file and json.dump or the closing flush fails,
\* which leaves the beginning of a document.
FailedWrite ==
    /\ file' \in {file, TruncatedFile}
    /\ UNCHANGED writes

\* with open('combined_analysis.json', 'w') as f: json.dump(combined_output, ...)
WriteFile ==
    /\ file' = Document(combined_output)
    /\ writes' = Append(writes, combined_output)

SaveInTry ==
    /\ pc = "save_in_try"
    /\ \/ /\ Raise("write1", "except", TRUE)
          /\ FailedWrite
       \/ /\ WriteFile
          /\ pc' = "save_final"
          /\ UNCHANGED << raised, e_printable >>
    /\ UNCHANGED << combined_output, results, raw_content, outcome, parts >>

\* An except clause that starts combined_output afresh.
HandleException_Resets ==
    /\ pc = "except"
    /\ IF e_printable
       THEN /\ pc' = "save_final"
            /\ combined_output' = << >>
            /\ UNCHANGED << raised, e_printable >>
       ELSE /\ Raise("except_print", "propagated", TRUE)
            /\ UNCHANGED combined_output
    /\ UNCHANGED << results, raw_content, outcome, file, writes, parts >>

\* except Exception as e: print(f"An unexpected error occurred: {str(e)}"),
\* log, then fall through to the final save.  The print raises
\* UnicodeEncodeError on a message it cannot write, and that exception
\* leaves main() before the final save.
HandleException ==
    /\ pc = "except"
    /\ IF e_printable
       THEN /\ pc' = "save_final"
            /\ UNCHANGED << raised, e_printable >>
       ELSE Raise("except_print", "propagated", TRUE)
    /\ UNCHANGED << combined_output, results, raw_content, outcome, file,
                    writes, parts >>

SaveFinal ==
    /\ pc = "save_final"
    /\ \/ /\ Raise("write2", "propagated", TRUE)
          /\ FailedWrite
       \/ /\ WriteFile
          /\ pc' = "done"
          /\ UNCHANGED << raised, e_printable >>
    /\ UNCHANGED << combined_output, results, raw_content, outcome, parts >>

\* if __name__ == "__main__": try: main() except Exception as e: print(...)
\* The exceptions that leave main() have ASCII messages.
ScriptHandler ==
    /\ pc = "propagated"
    /\ pc' = "exited"
    /\ UNCHANGED << combined_output, results, raw_content, outcome, file,
                    writes, raised, e_printable, parts >>

Terminal == {"returned", "done", "exited"}

Next ==
    \/ PromptCompanyUrl
    \/ RunInfoExtractor
    \/ RunPainPointAnalyzer
    \/ RunIndustryChallengesIdentifier
    \/ PromptSellingCompany
    \/ RunSolutionReporter
    \/ SaveInTry
    \/ HandleException
    \/ SaveFinal
    \/ ScriptHandler

Spec == Init /\ [][Next]_vars

----------------------------------------------------------------------------
(* The extractor on its own: one call of clean_and_parse_json on a text    *)
(* put together from prose, an optional fence and a body.                  *)

\* U+00A0 is the no-break space, which strip() removes.
ProseChars == {"x", " ", "{", "}", BT, CharOf(160)}

Prose == UNION {[1..n -> ProseChars] : n \in 0..MaxProse}

Opens == {<< >>, Fence, FenceJson}
Closes == {<< >>, Fence}

\* Bodies with the value json.loads gives for each, PyNone when the body is
\* not a JSON text.
BodyCases ==
    { [text |-> << "{", "}" >>,
       value |-> JObj(<< >>)],
      [text |-> << "{", Q, "a", Q, ":", " ", "1", "}" >>,
       value |-> JObj(<< "a" >> :> JNum(1))],
      [text |-> << "{", Q, "a", Q, ":", "{", "}", "}" >>,
       value |-> JObj(<< "a" >> :> JObj(<< >>))],
      [text |-> << "{", Q, "a", Q, ":", Q, "}", "{", Q, "}" >>,
       value |-> JObj(<< "a" >> :> JStr(<< "}", "{" >>))],
      [text |-> << "{", Q, "a", Q, ":", Q, BT, Q, "}" >>,
       value |-> JObj(<< "a" >> :> JStr(<< BT >>))],
      [text |-> << "{", Q, "a", Q, ":", Q, BT, BT, BT, Q, "}" >>,
       value |-> JObj(<< "a" >> :> JStr(<< BT, BT, BT >>))],
      [text |-> << "{", Q, "a", Q, ":", "-", "1", ".", "5", "0", "e", "2", "}" >>,
       value |-> JObj(<< "a" >> :> JFloat(0 - 15, 1))],
      [text |-> << "{", Q, "\\", "u", "0", "0", "4", "1", "\\", "b", Q, ":",
                   "[", "N", "a", "N", "]", "}" >>,
       value |-> JObj(<< "A", CharOf(8) >> :> JArr(<< JNaN >>))],
      [text |-> << "{", Q, "a", Q, ":", "[", "-", "1", "e", "9", "9", "9", ",",
                   "2", ".", "4", "e", "-", "3", "2", "4", "]", "}" >>,
       value |-> JObj(<< "a" >> :> JArr(<< JInf(TRUE), JFloat(0, 0) >>))],
      [text |-> << "{", Q, "a", Q, ":", Q, CharOf(11), Q, "}" >>,
       value |-> PyNone],
      [text |-> << "{", Q, "a", Q, ":", Q, CharOf(55357), Q, "}" >>,
       value |-> JObj(<< "a" >> :> JStr(<< CharOf(55357) >>))],
      [text |-> << "{", Q, "a", Q, ":", Q, CharOf(55357), Q, ",", "}" >>,
       value |-> PyNone],
      [text |-> << "{", Q, "a", Q, ":", "1", ",", "}" >>,
       value |-> PyNone],
      [text |-> << "{", Q, "a", "}" >>,
       value |-> PyNone],
      [text |-> << "{", "a", ":", "1", "}" >>,
       value |-> PyNone],
      [text |-> << "{", Q, "a", Q, ":", BT, BT, BT, "1", "}" >>,
       value |-> PyNone],
      [text |-> << "}", "{" >>,
       value |-> PyNone],
      [text |-> << "x" >>,
       value |-> PyNone],
      [text |-> << >>,
       value |-> PyNone] }

PartsSet ==
    { [pre |-> pre, open |-> open, body |-> b.text, close |-> close,
       post |-> post, value |-> b.value] :
          pre \in Prose, open \in Opens, b \in BodyCases, close \in Closes,
          post \in Prose }

Compose(p) == p.pre \o p.open \o p.body \o p.close \o p.post

InitExtract ==
    /\ pc = "extract"
    /\ parts \in PartsSet
    /\ raw_content = Compose(parts)
    /\ combined_output = << >>
    /\ results = << >>
    /\ outcome = NoOutcome
    /\ file = NoFile
    /\ writes = << >>
    /\ raised = << >>
    /\ e_printable = TRUE

\* parsed = clean_and_parse_json(raw_content)
ExtractOnce ==
    /\ pc = "extract"
    /\ outcome' = Extraction(raw_content)
    /\ pc' = IF outcome'.exc = "none" THEN "extracted" ELSE "raised"
    /\ UNCHANGED << combined_output, results, raw_content, file, writes,
                    raised, e_printable, parts >>

NextExtract == ExtractOnce

SpecExtract == InitExtract /\ [][NextExtract]_vars

----------------------------------------------------------------------------
(* Properties of a run of main(), checked under Spec *)

Has(k) == k \in DOMAIN combined_output
Raised(site) == \E i \in 1..Len(raised) : raised[i] = site
Last(q) == q[Len(q)]

\* C1: every way a run of main() ends after the URL was read (a failed
\* extraction of stage 1, 2 or 4, a caught exception, full success) has
\* written combined_analysis.json with the combined_output accumulated so far.
C1_PartialOutputAlwaysWritten ==
    pc \in {"returned", "done"} =>
        /\ writes # << >>
        /\ Last(writes) = combined_output
        /\ file = Document(combined_output)

\* The keys a document holds when the run stopped at the stage given by the
\* extractions made so far.
KeysBeforeFailure ==
    IF "pain_points" \in DOMAIN results THEN {"company_info"} ELSE {}

\* C2: when the extraction of stage 1 or of stage 2 fails, stage 3, the vendor
\* prompt and stage 4 are not executed and the persisted document holds the
\* keys of the stages before the failing one, and no others.
C2_EarlyFailurePersistsPrefix ==
    (pc = "returned" /\ "industry_challenges" \notin DOMAIN results) =>
        /\ DOMAIN results \subseteq {"company_info", "pain_points"}
        /\ ~Has("selling_company")
        /\ writes # << >>
        /\ DOMAIN Last(writes) = KeysBeforeFailure
        /\ file = Document(Last(writes))

\* The extraction of stage 3 failed: clean_and_parse_json returned None, or
\* it raised on the text of stage 3.
Stage3Failed ==
    \/ /\ "industry_challenges" \in DOMAIN results
       /\ results["industry_challenges"] = PyNone
    \/ Raised("extract3")

\* C3: a failed extraction of stage 3 does not end the run: the placeholder
\* is stored, the vendor name is asked for and stage 4 is executed, and a run
\* whose stages 1, 2 and 4 succeed ends with a document of all five keys
\* whose industry_challenges is {"error": "Failed to parse"}.
C3_Stage3FailureTolerated ==
    Stage3Failed =>
        /\ Has("industry_challenges")
        /\ combined_output["industry_challenges"] = Placeholder
        /\ pc # "prompt_vendor" => (Has("selling_company") \/ Raised("vendor"))
        /\ (Has("selling_company") /\ pc # "solution_reporter") =>
               ("solutions" \in DOMAIN results \/ Raised("stage4")
                \/ Raised("extract4"))
        /\ (pc = "done" /\ Has("solutions")) =>
               /\ file = Document(combined_output)
               /\ DOMAIN file.doc = KeySet
               /\ file.doc["industry_challenges"] = Placeholder

\* C4, for the case it singles out: when the generation call of stage 2
\* raises, the exception is caught and does not leave the run, a write
\* follows it, and the persisted document is the combined_output accumulated
\* so far, which holds the key company_info only.  Runs whose final write
\* fails are left aside.
C4_Stage2ExceptionIsFollowedByAWrite ==
    (pc \in Terminal /\ raised # << >> /\ raised[1] = "stage2"
        /\ ~Raised("write2")) =>
        /\ pc = "done"
        /\ writes # << >>
        /\ Last(writes) = combined_output
        /\ file = Document(combined_output)
        /\ DOMAIN file.doc = {"company_info"}

\* C5: whenever clean_and_parse_json returned a JSON object for a stage, the
\* empty object included, that object is stored under the stage's key, and a
\* run ends early only after an extraction that returned no object.
C5_ParsedObjectIsStored ==
    /\ \A k \in DOMAIN results :
          results[k].kind = "obj" => (Has(k) /\ combined_output[k] = results[k])
    /\ pc = "returned" => \E k \in DOMAIN results : results[k] = PyNone

\* C8: a key of combined_output, once set, keeps its value in every later
\* state of the run, and every write stores the whole combined_output.
C8_NeverRolledBack ==
    [][ /\ \A k \in DOMAIN combined_output :
              k \in DOMAIN combined_output' /\ combined_output'[k] = combined_output[k]
        /\ writes' # writes =>
              (writes' = Append(writes, combined_output) /\ file' = Document(combined_output))
      ]_vars

C8_Witness ==
    /\ pc = "done"
    /\ raised = << "stage4" >>
    /\ DOMAIN Last(writes) = KeySet \ {"solutions"}

IsKeyPrefix(d) ==
    \E n \in 0..Len(Keys) : DOMAIN d = {Keys[i] : i \in 1..n}

\* C9: the keys of combined_output, and of every document written, are a
\* prefix of company_info, pain_points, industry_challenges, selling_company,
\* solutions.
C9_KeysAreAPrefix ==
    /\ IsKeyPrefix(combined_output)
    /\ \A i \in 1..Len(writes) : IsKeyPrefix(writes[i])

C9_Witness ==
    /\ pc = "done"
    /\ "industry_challenges" \in DOMAIN results
    /\ results["industry_challenges"] = PyNone
    /\ raised = << "vendor" >>
    /\ DOMAIN Last(writes) = {"company_info", "pain_points", "industry_challenges"}

\* The statements of the try block that come before the first write.
BeforeFirstWrite ==
    {"stage1", "extract1", "stage2", "extract2", "stage3", "extract3",
     "vendor", "stage4", "extract4"}

\* A run without exception whose stages 1, 2 and 4 succeed writes the file
\* twice with the same complete combined_output, which does not change after
\* the first write.
WrittenTwiceOnSuccess ==
    /\ (pc = "done" /\ raised = << >>) =>
          /\ Len(writes) = 2
          /\ writes[1] = writes[2]
          /\ writes[2] = combined_output
          /\ DOMAIN combined_output = KeySet
          /\ file = Document(combined_output)
    /\ writes # << >> => combined_output = writes[1]

\* C10: a successful run writes the file twice with the same content, and a
\* run ended by a caught exception raised before the first write writes it
\* exactly once.  Runs whose final write fails are left aside.
C10_WrittenOnceAfterCaughtException ==
    /\ WrittenTwiceOnSuccess
    /\ (pc \in Terminal /\ raised # << >> /\ raised[1] \in BeforeFirstWrite
           /\ ~Raised("write2")) =>
          Len(writes) = 1

----------------------------------------------------------------------------
(* Properties of clean_and_parse_json, checked under SpecExtract *)

HasSpan(s) == \E i, j \in 1..Len(s) : i < j /\ s[i] = "{" /\ s[j] = "}"
Contains(s, c) == \E i \in 1..Len(s) : s[i] = c
ContainsFence(s) == \E i \in 1..Len(s) : IsPrefixAt(s, i, Fence)

\* The call of clean_and_parse_json is over: it returned or it raised.
Called == pc \in {"extracted", "raised"}

\* C6, for the texts in which the located span is the object (no '{' in the
\* prose before it, no '}' in the prose after it, no fence marker inside it):
\* a text holding one well-formed JSON object, fenced or not, with prose
\* before and after it, yields that object.
C6_SingleObjectReturned ==
    (Called /\ parts.value # PyNone
        /\ ~Contains(parts.pre, "{") /\ ~Contains(parts.post, "}")
        /\ ~ContainsFence(parts.body)) =>
        outcome = [ret |-> parts.value, log |-> "none", exc |-> "none"]

LocatedSpan == JsonMatch(CleanContent(raw_content))

\* json.loads raises JSONDecodeError on the located span.
SpanMalformed ==
    /\ LocatedSpan.found
    /\ ~JsonLoads(LocatedSpan.group).ok
    /\ JsonLoads(LocatedSpan.group).exc = "JSONDecodeError"

\* C7, the two failures: for a text with no span the call returns the
\* failure 'No JSON object found', and for a text whose located span is not
\* valid JSON it returns the failure 'JSON Decode Error'.
C7_FailuresAreReturned ==
    Called =>
        /\ ~HasSpan(raw_content) =>
               outcome = [ret |-> PyNone, log |-> "no_json", exc |-> "none"]
        /\ SpanMalformed =>
               outcome = [ret |-> PyNone, log |-> "decode_error", exc |-> "none"]

====
